---- MODULE Spec2Model ----
(***************************************************************************)
(* Tap / boost progression engine of the Neohex backend                    *)
(* (userController: tap, boost, distributeReferralXP) with its referral    *)
(* and leaderboard fan-out, and the quest claim of the quest routes.       *)
(* Spec and SpecAll run the requests one after another, every action one   *)
(* whole request handler; SpecInterleaved lets two requests overlap between *)
(* their awaits.  Times are whole seconds since the epoch, in UTC.          *)
(***************************************************************************)
EXTENDS Integers, Sequences, FiniteSets, TLC

VARIABLES
  users,        \* the User collection: id -> document
  referrals,    \* the Referral collection: (referrer, referred) -> totalRewardsDistributed
  leaderboard,  \* the Leaderboard collection: set of entries
  clock,        \* the time of the last request
  ops,          \* number of requests handled
  resp,         \* the last request and its response
  history,      \* what user 1 started with and how many taps and boosts it made
  reqs          \* SpecInterleaved: the requests in flight, one per slot;
                \* SpecReferral: the distributeReferralXP call in flight

vars == <<users, referrals, leaderboard, clock, ops, resp, history, reqs>>

(* ------------------------------ bounds -------------------------------- *)
\* number of requests in a run
MaxOps == 3
\* registered users 1..NumUsers, user u referred by u+1, the last by nobody
NumUsers == 5

(* ---------------------------- program constants ----------------------- *)
CooldownTapInterval == 500
GpuXpStep == 25000
BoostXpStep == 2000
\* 10 * 1000 ms
cooldownSeconds == 10
\* boostDuration = 10 * 1000 ms
boostDuration == 10
tapsPerSecond == 10
\* tapsPerSecond * (boostDuration / 1000), boostDuration in ms
totalBoostTaps == tapsPerSecond * boostDuration
\* tierPercentages [0.1, 0.05, 0.025], in thousandths
tierPercentages == <<100, 50, 25>>
MaxTier == 3
\* new Date(2000, 0, 1)
allTimeDate == 946684800
DaySeconds == 24 * 60 * 60
\* getDay() of the epoch's day (a Thursday)
EpochDay == 4

\* null for a timestamp and for a user reference
Null == -1
NoUser == 0
NoQuest == 0

\* SpecInterleaved: requests that can be in flight at once
Slots == {1, 2}
Idle == [op |-> "none", phase |-> "idle"]

UserIds == 1 .. NumUsers
\* identities a request may carry: user 1 and an unknown one
RequestIds == {1, NumUsers + 1}
\* time that passes before a request is handled
TimeSteps == {0, 10}

(* ------------------------------ the store ----------------------------- *)
\* userController never imports the Referral model it uses
ReferralBound == FALSE

FindUser(us, id) == IF id \in DOMAIN us THEN id ELSE NoUser

ReferredBy(u) == IF u < NumUsers THEN u + 1 ELSE NoUser

\* the Referral edges created at sign-up: (referrer, referred)
ReferralEdges == {<<ReferredBy(u), u>> : u \in {v \in UserIds : ReferredBy(v) # NoUser}}

Fresh(u) ==
  [xp |-> 0, compute |-> 0, computePower |-> 1, totalTaps |-> 0,
   gpuLevel |-> 0, cooldownEndTime |-> Null, boostCount |-> 0,
   lastTapTime |-> Null, lastBoostTime |-> Null, referredBy |-> ReferredBy(u),
   level |-> 1, completedQuests |-> <<>>, lastDailyClaimDate |-> Null,
   checkInStreak |-> 0]

\* the time of the first request: twenty seconds before a Sunday begins
\* (Saturday 3 January 1970, 23:59:40), so that a day and a week can change
StartClock == 3 * DaySeconds - 20

InitTaps == {400, 499}
InitXp == {0, 1900, 1999, 24900, 24999, 74999}
InitPower == {1, 1000}
InitBoosts == {0, 1}
InitCooldown == {Null, StartClock + 5}
InitLevel == {1}

(* ------------------------------ tap ----------------------------------- *)
\* variant: the cooldown still rejects at its end time (<= for <)
CoolingDown_inclusive(u, now) == u.cooldownEndTime # Null /\ now <= u.cooldownEndTime

\* user.cooldownEndTime && now < user.cooldownEndTime
CoolingDown(u, now) == u.cooldownEndTime # Null /\ now < u.cooldownEndTime

\* variant: a tap is worth one xp whatever the compute power
ApplyTap_unitXp(u, now) ==
  [u EXCEPT !.totalTaps = @ + 1, !.xp = @ + 1, !.compute = @ + 1, !.lastTapTime = now]

\* totalTaps += 1; xpGained = computePower; xp, compute += xpGained
ApplyTap(u, now) ==
  [u EXCEPT !.totalTaps = @ + 1,
            !.xp = @ + u.computePower,
            !.compute = @ + u.computePower,
            !.lastTapTime = now]

\* variant: the cooldown ends when it starts (the 10 s are not added)
ApplyCooldown_noDelay(u, now) ==
  IF u.totalTaps % CooldownTapInterval = 0
  THEN [u EXCEPT !.cooldownEndTime = now]
  ELSE u

\* if (totalTaps % 500 === 0) cooldownEndTime = now + 10s
ApplyCooldown(u, now) ==
  IF u.totalTaps % CooldownTapInterval = 0
  THEN [u EXCEPT !.cooldownEndTime = now + cooldownSeconds]
  ELSE u

\* variant: the upgrade needs more than the threshold (> for >=)
ApplyGpuUpgrade_strict(u) ==
  IF u.xp > (u.gpuLevel + 1) * GpuXpStep
  THEN [u EXCEPT !.gpuLevel = @ + 1, !.computePower = @ + 1]
  ELSE u

\* if (xp >= (gpuLevel + 1) * 25000) gpuLevel += 1, computePower += 1
ApplyGpuUpgrade(u) ==
  IF u.xp >= (u.gpuLevel + 1) * GpuXpStep
  THEN [u EXCEPT !.gpuLevel = @ + 1, !.computePower = @ + 1]
  ELSE u

\* variant: a boost is earned whenever the tap passes a multiple of 2000
ApplyBoostCount_crossing(u) ==
  IF u.xp % BoostXpStep < u.computePower THEN [u EXCEPT !.boostCount = @ + 1] ELSE u

\* if (xp % 2000 === 0) boostCount += 1
ApplyBoostCount(u) ==
  IF u.xp % BoostXpStep = 0 THEN [u EXCEPT !.boostCount = @ + 1] ELSE u

TapUpdate(u, now) ==
  ApplyBoostCount(ApplyGpuUpgrade(ApplyCooldown(ApplyTap(u, now), now)))

(* ------------------------------ boost --------------------------------- *)
\* variant: the boost forgets to reset the cooldown
BoostUpdate_keepCooldown(u, now) ==
  [u EXCEPT !.boostCount = @ - 1,
            !.lastBoostTime = now,
            !.totalTaps = @ + totalBoostTaps,
            !.xp = @ + totalBoostTaps * u.computePower,
            !.compute = @ + totalBoostTaps * u.computePower]

\* variant: the boost runs the tap's GPU upgrade check
BoostUpdate_withUpgrade(u, now) ==
  ApplyGpuUpgrade([u EXCEPT !.boostCount = @ - 1,
                            !.lastBoostTime = now,
                            !.totalTaps = @ + totalBoostTaps,
                            !.xp = @ + totalBoostTaps * u.computePower,
                            !.compute = @ + totalBoostTaps * u.computePower,
                            !.cooldownEndTime = Null])

\* user.boostCount -= 1 ... user.cooldownEndTime = null
BoostUpdate(u, now) ==
  [u EXCEPT !.boostCount = @ - 1,
            !.lastBoostTime = now,
            !.totalTaps = @ + totalBoostTaps,
            !.xp = @ + totalBoostTaps * u.computePower,
            !.compute = @ + totalBoostTaps * u.computePower,
            !.cooldownEndTime = Null]

(* ------------------------- referral propagation ----------------------- *)
\* Math.floor(xpGained * tierPercentages[tier - 1])
ReferralXP(xpGained, tier) == (xpGained * tierPercentages[tier]) \div 1000

\* the while loop: the credit is made on the loaded document, then the
\* Referral counter is updated, then the document is saved
RECURSIVE ReferralWalk(_, _, _, _, _, _)
ReferralWalk(us, refs, tapper, cur, tier, xpGained) ==
  IF cur = NoUser \/ tier > MaxTier
  THEN [users |-> us, referrals |-> refs, error |-> FALSE, credited |-> tier - 1]
  ELSE IF ~ReferralBound
  THEN [users |-> us, referrals |-> refs, error |-> TRUE, credited |-> tier - 1]
  ELSE LET reward == ReferralXP(xpGained, tier)
           refs2 == IF <<cur, tapper>> \in DOMAIN refs
                    THEN [refs EXCEPT ![<<cur, tapper>>] = @ + reward]
                    ELSE refs
           us2 == [us EXCEPT ![cur].xp = @ + reward]
       IN  ReferralWalk(us2, refs2, tapper, us2[cur].referredBy, tier + 1, xpGained)

\* variant: no catch, the error reaches the tap handler
distributeReferralXP_rethrow(us, refs, userId, xpGained, lookupFails) ==
  LET walk ==
        IF lookupFails
        THEN [users |-> us, referrals |-> refs, error |-> TRUE, credited |-> 0]
        ELSE IF FindUser(us, userId) = NoUser \/ us[userId].referredBy = NoUser
        THEN [users |-> us, referrals |-> refs, error |-> FALSE, credited |-> 0]
        ELSE ReferralWalk(us, refs, userId, us[userId].referredBy, 1, xpGained)
  IN  [users |-> walk.users, referrals |-> walk.referrals, error |-> walk.error,
       credited |-> walk.credited, thrown |-> walk.error]

\* try { lookup; walk } catch (error) { log }: nothing is thrown to the caller
\* lookupFails: User.findById(...).populate rejects
distributeReferralXP(us, refs, userId, xpGained, lookupFails) ==
  LET walk ==
        IF lookupFails
        THEN [users |-> us, referrals |-> refs, error |-> TRUE, credited |-> 0]
        ELSE IF FindUser(us, userId) = NoUser \/ us[userId].referredBy = NoUser
        THEN [users |-> us, referrals |-> refs, error |-> FALSE, credited |-> 0]
        ELSE ReferralWalk(us, refs, userId, us[userId].referredBy, 1, xpGained)
  IN  [users |-> walk.users, referrals |-> walk.referrals, error |-> walk.error,
       credited |-> walk.credited, thrown |-> FALSE]

(* ------------------------------ quests -------------------------------- *)
\* the Quest collection, read as stored: one quest of each kind the claim
\* handler tells apart ("" and 0 stand for an absent field)
Quests ==
  <<[type |-> "daily", xpReward |-> 50, requirement |-> 0, action |-> "", targetId |-> ""],
    [type |-> "tap", xpReward |-> 200, requirement |-> 500, action |-> "tap", targetId |-> ""],
    [type |-> "level", xpReward |-> 300, requirement |-> 2, action |-> "reach_level", targetId |-> ""],
    [type |-> "telegram", xpReward |-> 400, requirement |-> 0, action |-> "join", targetId |-> "channel"],
    [type |-> "telegram", xpReward |-> 400, requirement |-> 0, action |-> "join", targetId |-> ""],
    [type |-> "bonus", xpReward |-> 500, requirement |-> 0, action |-> "", targetId |-> ""]>>

\* quest ids a claim may carry: the stored ones and one that is not stored
QuestIds == 1 .. (Len(Quests) + 1)

\* Quest.findById
FindQuest(questId) == IF questId \in DOMAIN Quests THEN questId ELSE NoQuest

\* what verifyTelegramQuest answers: member, stranger or error (it rejects)
TelegramAnswers == {"member", "stranger", "error"}

\* verifyTelegramQuest is called for a telegram quest with its data only
AnswersFor(questId) ==
  IF /\ questId \in DOMAIN Quests
     /\ Quests[questId].type = "telegram"
     /\ Quests[questId].action # "" /\ Quests[questId].targetId # ""
  THEN TelegramAnswers
  ELSE {"member"}

AlwaysVerified == {"daily", "weekly", "twitter", "discord", "leaderboard", "referral", "achievement"}

\* verifyQuestCompletion: threw, or the value returned
verifyQuestCompletion(user, quest, telegram) ==
  IF quest.type \in AlwaysVerified
  THEN [threw |-> FALSE, value |-> TRUE]
  ELSE IF quest.type = "telegram"
  THEN IF quest.action = "" \/ quest.targetId = ""
       THEN [threw |-> TRUE, value |-> FALSE]
       ELSE [threw |-> telegram = "error", value |-> telegram = "member"]
  ELSE IF quest.type = "tap"
  THEN [threw |-> FALSE, value |-> user.totalTaps >= quest.requirement]
  ELSE IF quest.type = "level"
  THEN [threw |-> FALSE, value |-> user.level >= quest.requirement]
  ELSE [threw |-> TRUE, value |-> FALSE]

\* variant: the id from the URL never equals a stored id
AlreadyClaimed_never(user, questId) == FALSE

\* user.completedQuests.includes(questId)
AlreadyClaimed(user, questId) ==
  \E i \in DOMAIN user.completedQuests : user.completedQuests[i] = questId

\* the answer of the claim handler up to its save
ClaimOutcome(user, questId, telegram) ==
  IF FindQuest(questId) = NoQuest THEN "Quest not found"
  ELSE IF AlreadyClaimed(user, questId) THEN "Quest already claimed"
  ELSE LET verified == verifyQuestCompletion(user, Quests[questId], telegram) IN
       IF verified.threw THEN "Error claiming quest"
       ELSE IF ~verified.value /\ Quests[questId].type = "telegram"
       THEN "User has not joined telegram channel"
       ELSE "Quest claimed successfully"

\* variant: the "not joined" answer does not return before the credit
ClaimCredits_notJoined(outcome) ==
  outcome \in {"Quest claimed successfully", "User has not joined telegram channel"}

\* the outcomes that reach the credit and the save
ClaimCredits(outcome) == outcome = "Quest claimed successfully"

ClaimStatus(outcome) ==
  IF outcome = "Quest claimed successfully" THEN 200
  ELSE IF outcome = "Quest not found" THEN 404
  ELSE IF outcome = "Error claiming quest" THEN 500
  ELSE 400

\* variant: the claim also resets the cooldown
ClaimUpdate_resetsCooldown(user, questId) ==
  [user EXCEPT !.xp = @ + Quests[questId].xpReward,
               !.completedQuests = Append(@, questId),
               !.cooldownEndTime = Null]

\* user.xp += quest.xpReward; user.completedQuests.push(questId)
ClaimUpdate(user, questId) ==
  [user EXCEPT !.xp = @ + Quests[questId].xpReward,
               !.completedQuests = Append(@, questId)]

\* claimDailyXP: xpGained = 100
DailyXp == 100

DailyUpdate(user, now) ==
  [user EXCEPT !.xp = @ + DailyXp,
               !.lastDailyClaimDate = now,
               !.checkInStreak = @ + 1]

\* upgradeGPU: user.computePower += 1
UpgradeUpdate(user) == [user EXCEPT !.computePower = @ + 1]

(* ------------------------------ leaderboard --------------------------- *)
\* variant: the daily period is the instant of the tap (setHours left out)
StartOfDay_instant(t) == t

\* today.setHours(0, 0, 0, 0)
StartOfDay(t) == t - (t % DaySeconds)
\* weekStart.setDate(today.getDate() - today.getDay())
StartOfWeek(t) ==
  StartOfDay(t) - ((EpochDay + (StartOfDay(t) \div DaySeconds)) % 7) * DaySeconds

\* upsert of the entry keyed by (type, date, user)
updateEntry(lb, type, date, user, score) ==
  {e \in lb : ~(e.type = type /\ e.date = date /\ e.user = user)}
    \cup {[type |-> type, date |-> date, user |-> user, score |-> score]}

\* variant: the all-time entry carries compute like the other two
UpdateLeaderboards_allTimeCompute(lb, id, u, t, fail) ==
  LET lb1 == IF fail = "daily" THEN lb
             ELSE updateEntry(lb, "daily", StartOfDay(t), id, u.compute)
      lb2 == IF fail = "weekly" THEN lb1
             ELSE updateEntry(lb1, "weekly", StartOfWeek(t), id, u.compute)
  IN  IF fail = "all-time" THEN lb2
      ELSE updateEntry(lb2, "all-time", allTimeDate, id, u.compute)

\* Promise.all of the three upserts; a rejected one writes nothing
UpdateLeaderboards(lb, id, u, t, fail) ==
  LET lb1 == IF fail = "daily" THEN lb
             ELSE updateEntry(lb, "daily", StartOfDay(t), id, u.compute)
      lb2 == IF fail = "weekly" THEN lb1
             ELSE updateEntry(lb1, "weekly", StartOfWeek(t), id, u.compute)
  IN  IF fail = "all-time" THEN lb2
      ELSE updateEntry(lb2, "all-time", allTimeDate, id, u.computePower)

(* ------------------------------ responses ----------------------------- *)
NoSnapshot == [xp |-> Null]

TapSnapshot(u) ==
  [xp |-> u.xp, compute |-> u.compute, totalTaps |-> u.totalTaps,
   computePower |-> u.computePower, gpuLevel |-> u.gpuLevel,
   cooldownEndTime |-> u.cooldownEndTime, boostCount |-> u.boostCount]

BoostSnapshot(u) ==
  [xp |-> u.xp, compute |-> u.compute, totalTaps |-> u.totalTaps,
   boostCount |-> u.boostCount, lastBoostTime |-> u.lastBoostTime]

\* fault: the persistence call that rejected in this request ("none": none);
\* saved: user.save() completed; refError: distributeReferralXP logged an error
Response(op, id, now, fault, status, message, cd, snap, saved, refError) ==
  [op |-> op, id |-> id, now |-> now, fault |-> fault, status |-> status,
   message |-> message, cooldownEndTime |-> cd, user |-> snap, saved |-> saved,
   refError |-> refError, quest |-> NoQuest]

ServerError(op, id, now, fault, saved, refError) ==
  Response(op, id, now, fault, 500, "Server error", Null, NoSnapshot, saved, refError)

NotFound(op, id, now) ==
  Response(op, id, now, "none", 404, "User not found", Null, NoSnapshot, FALSE, FALSE)

TapFailures == {"none", "save", "referral", "daily", "weekly", "all-time"}
LeaderboardFailures == {"daily", "weekly", "all-time"}
BoostFailures == {"none", "save"}

(* ------------------------------ actions ------------------------------- *)
\* user 1 starts from any combination of the given values, the others fresh
InitWith(Taps, Xp, Power, Boosts, Cooldown, Level) ==
  /\ \E t \in Taps, x \in Xp, p \in Power, b \in Boosts, c \in Cooldown, l \in Level :
       /\ users = [u \in UserIds |->
                     IF u = 1
                     THEN [Fresh(u) EXCEPT !.totalTaps = t, !.xp = x, !.compute = x,
                                           !.computePower = p, !.boostCount = b,
                                           !.cooldownEndTime = c, !.level = l]
                     ELSE Fresh(u)]
       /\ history = [initialTaps |-> t, initialCompute |-> x,
                     taps |-> 0, accepted |-> 0, boosts |-> 0]
  /\ referrals = [e \in ReferralEdges |-> 0]
  /\ leaderboard = {}
  /\ clock = StartClock
  /\ ops = 0
  /\ resp = Response("none", NoUser, StartClock, "none", 0, "", Null, NoSnapshot, FALSE, FALSE)
  /\ reqs = [s \in Slots |-> Idle]

Init == InitWith(InitTaps, InitXp, InitPower, InitBoosts, InitCooldown, InitLevel)

\* variant: the check lets a user without boosts through (< 0 for < 1)
NoBoostAvailable_negative(u) == u.boostCount < 0

\* user.boostCount < 1
NoBoostAvailable(u) == u.boostCount < 1

\* exports.tap
Tap(id, dt, fail) ==
  /\ ops < MaxOps
  /\ ops' = ops + 1
  /\ UNCHANGED reqs
  /\ clock' = clock + dt
  /\ LET now == clock + dt
         uid == FindUser(users, id)
     IN
     IF uid = NoUser
     THEN /\ resp' = NotFound("tap", id, now)
          /\ UNCHANGED <<users, referrals, leaderboard, history>>
     ELSE IF CoolingDown(users[uid], now)
     THEN /\ resp' = Response("tap", id, now, "none", 400, "Cooling down",
                              users[uid].cooldownEndTime, NoSnapshot, FALSE, FALSE)
          /\ history' = [history EXCEPT !.taps = @ + 1]
          /\ UNCHANGED <<users, referrals, leaderboard>>
     ELSE IF fail = "save"
     THEN /\ resp' = ServerError("tap", id, now, fail, FALSE, FALSE)
          /\ UNCHANGED <<users, referrals, leaderboard, history>>
     ELSE LET user == TapUpdate(users[uid], now)
              xpGained == users[uid].computePower
              saved == [users EXCEPT ![uid] = user]
              ref == distributeReferralXP(saved, referrals, uid, xpGained, fail = "referral")
          IN  /\ users' = ref.users
              /\ referrals' = ref.referrals
              /\ history' = [history EXCEPT !.taps = @ + 1, !.accepted = @ + 1]
              /\ IF ref.thrown
                 THEN /\ leaderboard' = leaderboard
                      /\ resp' = ServerError("tap", id, now, fail, TRUE, ref.error)
                 ELSE /\ leaderboard' = UpdateLeaderboards(leaderboard, uid, user, now, fail)
                      /\ resp' = IF fail \in LeaderboardFailures
                                 THEN ServerError("tap", id, now, fail, TRUE, ref.error)
                                 ELSE Response("tap", id, now, fail, 200, "Tap successful",
                                               Null, TapSnapshot(user), TRUE, ref.error)

\* exports.boost
Boost(id, dt, fail) ==
  /\ ops < MaxOps
  /\ ops' = ops + 1
  /\ clock' = clock + dt
  /\ UNCHANGED <<referrals, leaderboard, reqs>>
  /\ LET now == clock + dt
         uid == FindUser(users, id)
     IN
     IF uid = NoUser
     THEN /\ resp' = NotFound("boost", id, now)
          /\ UNCHANGED <<users, history>>
     ELSE IF NoBoostAvailable(users[uid])
     THEN /\ resp' = Response("boost", id, now, "none", 400, "No boost available",
                              Null, NoSnapshot, FALSE, FALSE)
          /\ UNCHANGED <<users, history>>
     ELSE IF fail = "save"
     THEN /\ resp' = ServerError("boost", id, now, fail, FALSE, FALSE)
          /\ UNCHANGED <<users, history>>
     ELSE LET user == BoostUpdate(users[uid], now)
          IN  /\ users' = [users EXCEPT ![uid] = user]
              /\ history' = [history EXCEPT !.boosts = @ + 1]
              /\ resp' = Response("boost", id, now, fail, 200, "Boost activated", Null,
                                  BoostSnapshot(user), TRUE, FALSE)

\* router.post("/claim/:questId")
ClaimQuest(id, questId, telegram, fail) ==
  /\ ops < MaxOps
  /\ ops' = ops + 1
  /\ UNCHANGED <<referrals, leaderboard, clock, history, reqs>>
  /\ LET uid == FindUser(users, id) IN
     IF uid = NoUser
     THEN /\ resp' = [NotFound("claim", id, clock) EXCEPT !.quest = questId]
          /\ UNCHANGED users
     ELSE LET outcome == ClaimOutcome(users[uid], questId, telegram)
              user == ClaimUpdate(users[uid], questId)
          IN  IF ~ClaimCredits(outcome)
              THEN /\ resp' = [Response("claim", id, clock, "none", ClaimStatus(outcome),
                                        outcome, Null, NoSnapshot, FALSE, FALSE)
                                 EXCEPT !.quest = questId]
                   /\ UNCHANGED users
              ELSE IF fail = "save"
              THEN /\ resp' = [Response("claim", id, clock, fail, 500, "Error claiming quest",
                                        Null, NoSnapshot, FALSE, FALSE)
                                 EXCEPT !.quest = questId]
                   /\ UNCHANGED users
              ELSE /\ users' = [users EXCEPT ![uid] = user]
                   /\ resp' = [Response("claim", id, clock, fail, ClaimStatus(outcome),
                                        outcome, Null, [xp |-> user.xp], TRUE, FALSE)
                                 EXCEPT !.quest = questId]

\* exports.claimDailyXP; can: what user.canClaimDailyXP() answers
ClaimDailyXP(id, can) ==
  /\ ops < MaxOps
  /\ ops' = ops + 1
  /\ UNCHANGED <<referrals, leaderboard, clock, history, reqs>>
  /\ LET uid == FindUser(users, id) IN
     IF uid = NoUser
     THEN /\ resp' = NotFound("daily", id, clock)
          /\ UNCHANGED users
     ELSE IF can
     THEN LET user == DailyUpdate(users[uid], clock) IN
          /\ users' = [users EXCEPT ![uid] = user]
          /\ resp' = Response("daily", id, clock, "none", 200, "Daily XP claimed successfully",
                              Null, [xp |-> user.xp], TRUE, FALSE)
     ELSE /\ resp' = Response("daily", id, clock, "none", 400, "Daily XP already claimed",
                              Null, NoSnapshot, FALSE, FALSE)
          /\ UNCHANGED users

\* exports.upgradeGPU
UpgradeGPU(id) ==
  /\ ops < MaxOps
  /\ ops' = ops + 1
  /\ UNCHANGED <<referrals, leaderboard, clock, history, reqs>>
  /\ LET uid == FindUser(users, id) IN
     IF uid = NoUser
     THEN /\ resp' = NotFound("upgrade", id, clock)
          /\ UNCHANGED users
     ELSE LET user == UpgradeUpdate(users[uid]) IN
          /\ users' = [users EXCEPT ![uid] = user]
          /\ resp' = Response("upgrade", id, clock, "none", 200, "GPU upgraded successfully",
                              Null, [xp |-> user.xp], TRUE, FALSE)

Next ==
  \/ \E id \in RequestIds, dt \in TimeSteps, fail \in TapFailures : Tap(id, dt, fail)
  \/ \E id \in RequestIds, dt \in TimeSteps, fail \in BoostFailures : Boost(id, dt, fail)

Spec == Init /\ [][Next]_vars

(* ----- all the handlers that write a user, one request after another ---- *)
InitAllTaps == {499}
InitAllXp == {0, 1999}
InitAllPower == {1}
InitAllBoosts == {1}
InitAllLevel == {1, 2}

InitAll ==
  InitWith(InitAllTaps, InitAllXp, InitAllPower, InitAllBoosts, InitCooldown, InitAllLevel)

ClaimFailures == {"none", "save"}

NextAll ==
  \/ \E id \in RequestIds, dt \in TimeSteps : Tap(id, dt, "none")
  \/ \E id \in RequestIds, dt \in TimeSteps : Boost(id, dt, "none")
  \/ \E id \in RequestIds, q \in QuestIds :
       \E tg \in AnswersFor(q), fail \in ClaimFailures : ClaimQuest(id, q, tg, fail)
  \/ \E id \in RequestIds, can \in BOOLEAN : ClaimDailyXP(id, can)
  \/ \E id \in RequestIds : UpgradeGPU(id)

SpecAll == InitAll /\ [][NextAll]_vars

(* ----- two requests in flight, each stopping at its awaits ------------- *)
\* variant: the fan-out is awaited before user.save()
TapPhases_fanOutFirst == <<"referral", "leaderboard", "save">>

\* the awaits of an accepted tap, in the order of the handler:
\* user.save(), distributeReferralXP, Promise.all of the leaderboard upserts
TapPhases == <<"save", "referral", "leaderboard">>

\* variant: the counters are written as increments on what the store holds
SaveDoc_increment(stored, loaded, doc) ==
  LET path(f) == IF doc[f] # loaded[f] THEN doc[f] ELSE stored[f]
      inc(f) == stored[f] + (doc[f] - loaded[f])
  IN  [xp |-> inc("xp"), compute |-> inc("compute"),
       computePower |-> inc("computePower"), totalTaps |-> inc("totalTaps"),
       gpuLevel |-> inc("gpuLevel"), cooldownEndTime |-> path("cooldownEndTime"),
       boostCount |-> inc("boostCount"), lastTapTime |-> path("lastTapTime"),
       lastBoostTime |-> path("lastBoostTime"), referredBy |-> path("referredBy"),
       level |-> path("level"), completedQuests |-> path("completedQuests"),
       lastDailyClaimDate |-> path("lastDailyClaimDate"),
       checkInStreak |-> path("checkInStreak")]

\* user.save() of a loaded document: the paths the handler changed since the
\* load are written, the others keep what the store holds
SaveDoc(stored, loaded, doc) ==
  LET path(f) == IF doc[f] # loaded[f] THEN doc[f] ELSE stored[f]
  IN  [xp |-> path("xp"), compute |-> path("compute"),
       computePower |-> path("computePower"), totalTaps |-> path("totalTaps"),
       gpuLevel |-> path("gpuLevel"), cooldownEndTime |-> path("cooldownEndTime"),
       boostCount |-> path("boostCount"), lastTapTime |-> path("lastTapTime"),
       lastBoostTime |-> path("lastBoostTime"), referredBy |-> path("referredBy"),
       level |-> path("level"), completedQuests |-> path("completedQuests"),
       lastDailyClaimDate |-> path("lastDailyClaimDate"),
       checkInStreak |-> path("checkInStreak")]

\* a request suspended at an await: the document it loaded and what the
\* handler made of it
InFlight(op, phase, id, uid, now, loaded, doc, xpGained) ==
  [op |-> op, phase |-> phase, step |-> 1, id |-> id, uid |-> uid, now |-> now,
   loaded |-> loaded, doc |-> doc, xpGained |-> xpGained, refError |-> FALSE]

\* the tap in slot s has passed its await: it goes to the next one, or
\* answers when that was the last
TapResume(s, r) ==
  IF r.step < Len(TapPhases)
  THEN /\ reqs' = [reqs EXCEPT ![s] = [r EXCEPT !.step = @ + 1,
                                                !.phase = TapPhases[r.step + 1]]]
       /\ UNCHANGED resp
  ELSE /\ reqs' = [reqs EXCEPT ![s] = Idle]
       /\ resp' = Response("tap", r.id, r.now, "none", 200, "Tap successful",
                           Null, TapSnapshot(r.doc), TRUE, r.refError)

\* exports.tap up to its first await after the load
TapBegin(s, id, dt) ==
  /\ ops < MaxOps
  /\ reqs[s] = Idle
  /\ ops' = ops + 1
  /\ clock' = clock + dt
  /\ UNCHANGED <<users, referrals, leaderboard>>
  /\ LET now == clock + dt
         uid == FindUser(users, id)
     IN
     IF uid = NoUser
     THEN /\ resp' = NotFound("tap", id, now)
          /\ UNCHANGED <<history, reqs>>
     ELSE IF CoolingDown(users[uid], now)
     THEN /\ resp' = Response("tap", id, now, "none", 400, "Cooling down",
                              users[uid].cooldownEndTime, NoSnapshot, FALSE, FALSE)
          /\ history' = [history EXCEPT !.taps = @ + 1]
          /\ UNCHANGED reqs
     ELSE /\ reqs' = [reqs EXCEPT ![s] =
                        InFlight("tap", TapPhases[1], id, uid, now, users[uid],
                                 TapUpdate(users[uid], now), users[uid].computePower)]
          /\ UNCHANGED <<resp, history>>

\* await user.save()
TapSave(s) ==
  /\ reqs[s].op = "tap" /\ reqs[s].phase = "save"
  /\ LET r == reqs[s] IN
     /\ users' = [users EXCEPT ![r.uid] = SaveDoc(@, r.loaded, r.doc)]
     /\ history' = [history EXCEPT !.taps = @ + 1, !.accepted = @ + 1]
     /\ TapResume(s, r)
  /\ UNCHANGED <<referrals, leaderboard, clock, ops>>

\* await distributeReferralXP(user._id, xpGained)
TapReferral(s) ==
  /\ reqs[s].op = "tap" /\ reqs[s].phase = "referral"
  /\ LET r == reqs[s]
         ref == distributeReferralXP(users, referrals, r.uid, r.xpGained, FALSE)
     IN
     /\ users' = ref.users
     /\ referrals' = ref.referrals
     /\ TapResume(s, [r EXCEPT !.refError = ref.error])
  /\ UNCHANGED <<leaderboard, clock, ops, history>>

\* await Promise.all of the three Leaderboard.updateEntry
TapLeaderboard(s) ==
  /\ reqs[s].op = "tap" /\ reqs[s].phase = "leaderboard"
  /\ LET r == reqs[s] IN
     /\ leaderboard' = UpdateLeaderboards(leaderboard, r.uid, r.doc, r.now, "none")
     /\ TapResume(s, r)
  /\ UNCHANGED <<users, referrals, clock, ops, history>>

\* exports.boost up to await user.save()
BoostBegin(s, id, dt) ==
  /\ ops < MaxOps
  /\ reqs[s] = Idle
  /\ ops' = ops + 1
  /\ clock' = clock + dt
  /\ UNCHANGED <<users, referrals, leaderboard, history>>
  /\ LET now == clock + dt
         uid == FindUser(users, id)
     IN
     IF uid = NoUser
     THEN /\ resp' = NotFound("boost", id, now)
          /\ UNCHANGED reqs
     ELSE IF NoBoostAvailable(users[uid])
     THEN /\ resp' = Response("boost", id, now, "none", 400, "No boost available",
                              Null, NoSnapshot, FALSE, FALSE)
          /\ UNCHANGED reqs
     ELSE /\ reqs' = [reqs EXCEPT ![s] =
                        InFlight("boost", "save", id, uid, now, users[uid],
                                 BoostUpdate(users[uid], now), 0)]
          /\ UNCHANGED resp

\* await user.save() of the boost, and its answer
BoostSave(s) ==
  /\ reqs[s].op = "boost" /\ reqs[s].phase = "save"
  /\ LET r == reqs[s] IN
     /\ users' = [users EXCEPT ![r.uid] = SaveDoc(@, r.loaded, r.doc)]
     /\ resp' = Response("boost", r.id, r.now, "none", 200, "Boost activated", Null,
                         BoostSnapshot(r.doc), TRUE, FALSE)
  /\ history' = [history EXCEPT !.boosts = @ + 1]
  /\ reqs' = [reqs EXCEPT ![s] = Idle]
  /\ UNCHANGED <<referrals, leaderboard, clock, ops>>

InitInterleavedTaps == {499}
InitInterleavedXp == {0, 1999}
InitInterleavedPower == {1}
InitInterleavedBoosts == {1}

InitInterleaved ==
  InitWith(InitInterleavedTaps, InitInterleavedXp, InitInterleavedPower,
           InitInterleavedBoosts, InitCooldown, InitLevel)

NextInterleaved ==
  \/ \E s \in Slots, id \in RequestIds, dt \in TimeSteps : TapBegin(s, id, dt)
  \/ \E s \in Slots : TapSave(s)
  \/ \E s \in Slots : TapReferral(s)
  \/ \E s \in Slots : TapLeaderboard(s)
  \/ \E s \in Slots, id \in RequestIds, dt \in TimeSteps : BoostBegin(s, id, dt)
  \/ \E s \in Slots : BoostSave(s)

SpecInterleaved == InitInterleaved /\ [][NextInterleaved]_vars

(* ----- distributeReferralXP alone, on any graph of referredBy links ----- *)
\* whom a stored user may name as referrer: nobody, itself, the next user
\* round the ring of all users, or a user that is not stored
ReferrerChoices(u) == {NoUser, u, (u % NumUsers) + 1, NumUsers + 1}

ReferrerGraphs ==
  {g \in [UserIds -> 0 .. (NumUsers + 1)] : \A u \in UserIds : g[u] \in ReferrerChoices(u)}

\* gains a call may be made with: a tap's and a boosted tap's
WalkGains == {1, 1000}

\* while (currentReferrer && currentTier <= 3)
WalkContinues(cur, tier) == cur # NoUser /\ tier <= MaxTier

\* the call between two of its awaits: the ancestor at hand, its tier, the
\* credits made on loaded documents and those saved
Walk(id, phase, cur, tier, xpGained) ==
  [op |-> "referral", phase |-> phase, id |-> id, cur |-> cur, tier |-> tier,
   xpGained |-> xpGained, credited |-> 0, saved |-> 0, error |-> FALSE]

\* variant: the catch block starts the iteration over
WalkCatch_retry(r) == [r EXCEPT !.error = TRUE]

\* catch (error) { logger.error(...) }: the call returns
WalkCatch(r) == [r EXCEPT !.phase = "done", !.error = TRUE]

\* const user = await User.findById(userId).populate('referredBy');
\* if (!user || !user.referredBy) return;
WalkBegin(id, xpGained) ==
  /\ reqs.phase \in {"idle", "done"}
  /\ LET uid == FindUser(users, id)
         referrer == IF uid = NoUser THEN NoUser ELSE FindUser(users, users[uid].referredBy)
     IN  reqs' = IF referrer = NoUser
                 THEN Walk(id, "done", NoUser, 1, xpGained)
                 ELSE Walk(id, "loop", referrer, 1, xpGained)
  /\ UNCHANGED <<users, referrals, leaderboard, clock, ops, resp, history>>

\* one evaluation of the loop condition and, if it holds, of the loop body
WalkIterate ==
  /\ reqs.phase = "loop"
  /\ UNCHANGED <<leaderboard, clock, ops, resp, history>>
  /\ LET r == reqs
         reward == ReferralXP(r.xpGained, r.tier)
     IN
     IF ~WalkContinues(r.cur, r.tier)
     THEN /\ reqs' = [r EXCEPT !.phase = "done"]
          /\ UNCHANGED <<users, referrals>>
     ELSE IF ~ReferralBound
     THEN /\ reqs' = WalkCatch([r EXCEPT !.credited = @ + 1])
          /\ UNCHANGED <<users, referrals>>
     ELSE /\ users' = [users EXCEPT ![r.cur].xp = @ + reward]
          /\ referrals' = IF <<r.cur, r.id>> \in DOMAIN referrals
                          THEN [referrals EXCEPT ![<<r.cur, r.id>>] = @ + reward]
                          ELSE referrals
          /\ reqs' = [r EXCEPT !.credited = @ + 1, !.saved = @ + 1,
                               !.cur = FindUser(users, users[r.cur].referredBy),
                               !.tier = @ + 1]

InitReferral ==
  /\ \E g \in ReferrerGraphs :
       /\ users = [u \in UserIds |-> [Fresh(u) EXCEPT !.referredBy = g[u]]]
       /\ referrals = [e \in {<<g[u], u>> : u \in {v \in UserIds : g[v] \in UserIds}} |-> 0]
  /\ history = [initialTaps |-> 0, initialCompute |-> 0,
                taps |-> 0, accepted |-> 0, boosts |-> 0]
  /\ leaderboard = {}
  /\ clock = StartClock
  /\ ops = 0
  /\ resp = Response("none", NoUser, StartClock, "none", 0, "", Null, NoSnapshot, FALSE, FALSE)
  /\ reqs = Idle

NextReferral ==
  \/ \E id \in UserIds \cup {NumUsers + 1}, xpGained \in WalkGains : WalkBegin(id, xpGained)
  \/ WalkIterate

\* a call that is in its loop is resumed: the event loop runs every
\* continuation whose await has settled
SpecReferral == InitReferral /\ [][NextReferral]_vars /\ WF_vars(WalkIterate)

(* ===================================================================== *)
(* Properties.  In an action formula resp' is the request just handled,  *)
(* users its store before and users' its store after.                    *)
(* ===================================================================== *)
\* the request just handled is a tap / a boost of a registered user
TapOf(u) == resp'.op = "tap" /\ resp'.id = u
BoostOf(u) == resp'.op = "boost" /\ resp'.id = u
\* ... whose user.save() completed
AcceptedTapOf(u) == TapOf(u) /\ resp'.saved
SuccessfulBoostOf(u) == BoostOf(u) /\ resp'.saved

StoreUnchanged ==
  users' = users /\ referrals' = referrals /\ leaderboard' = leaderboard

\* C1: a tap request made while cooldownEndTime is non-null and
\* now < cooldownEndTime is answered "Cooling down" with that cooldownEndTime
\* and changes no user, no referral counter and no leaderboard entry; a tap
\* at now >= cooldownEndTime, or with cooldownEndTime null, is not rejected
\* for cooldown.
C1_CooldownRejects ==
  [][\A u \in UserIds :
       TapOf(u) =>
         IF users[u].cooldownEndTime # Null /\ resp'.now < users[u].cooldownEndTime
         THEN /\ resp'.status = 400
              /\ resp'.message = "Cooling down"
              /\ resp'.cooldownEndTime = users[u].cooldownEndTime
              /\ StoreUnchanged
         ELSE resp'.message # "Cooling down"]_vars

\* a tap rejected during the cooldown that the user's own 500th tap started
C1_Witness ==
  /\ resp.op = "tap" /\ resp.id = 1 /\ resp.message = "Cooling down"
  /\ users[1].totalTaps = CooldownTapInterval
  /\ resp.cooldownEndTime = users[1].lastTapTime + cooldownSeconds
  /\ resp.now < resp.cooldownEndTime

\* C2 as stated: with no boost, totalTaps equals its initial value plus the
\* number of taps the user made (every tap answered or saved counts).
C2_Original ==
  history.boosts = 0 => users[1].totalTaps = history.initialTaps + history.taps

\* C2 amended: with no boost, totalTaps equals its initial value plus the
\* number of accepted taps; each accepted tap adds the computePower read at
\* its start to xp and to compute, and a tap that is not accepted leaves the
\* user unchanged.
C2_TapCount ==
  /\ [](history.boosts = 0 =>
          users[1].totalTaps = history.initialTaps + history.accepted)
  /\ [][\A u \in UserIds :
          /\ AcceptedTapOf(u) =>
               /\ users'[u].totalTaps = users[u].totalTaps + 1
               /\ users'[u].xp = users[u].xp + users[u].computePower
               /\ users'[u].compute = users[u].compute + users[u].computePower
          /\ (TapOf(u) /\ ~resp'.saved) => users'[u] = users[u]]_vars

\* three accepted taps in a row, the first of which raised the compute power
C2_Witness ==
  /\ history.boosts = 0 /\ history.accepted = 3
  /\ users[1].totalTaps = history.initialTaps + 3
  /\ users[1].computePower = 2
  /\ users[1].xp = 24999 + 1 + 2 + 2

\* C3 as stated: whenever totalTaps reaches a positive multiple of 500, by a
\* tap or by a boost, cooldownEndTime is set to the request's time + 10 s,
\* and it is set at no other moment.
C3_Original ==
  [][\A u \in UserIds :
       /\ (/\ users'[u].totalTaps # users[u].totalTaps
           /\ users'[u].totalTaps > 0
           /\ users'[u].totalTaps % CooldownTapInterval = 0)
            => users'[u].cooldownEndTime = resp'.now + cooldownSeconds
       /\ (/\ users'[u].cooldownEndTime # users[u].cooldownEndTime
           /\ users'[u].cooldownEndTime # Null)
            => /\ users'[u].totalTaps # users[u].totalTaps
               /\ users'[u].totalTaps % CooldownTapInterval = 0]_vars

\* C3 amended: an accepted tap whose post-increment totalTaps is a multiple
\* of 500 sets cooldownEndTime to the tap's time + 10 s; cooldownEndTime gets
\* a new non-null value at no other moment; a boost leaves it null even when
\* it brings totalTaps to a multiple of 500.
C3_CooldownTrigger ==
  [][\A u \in UserIds :
       /\ (AcceptedTapOf(u) /\ users'[u].totalTaps % CooldownTapInterval = 0)
            => users'[u].cooldownEndTime = resp'.now + cooldownSeconds
       /\ (/\ users'[u].cooldownEndTime # users[u].cooldownEndTime
           /\ users'[u].cooldownEndTime # Null)
            => /\ AcceptedTapOf(u)
               /\ users'[u].totalTaps = users[u].totalTaps + 1
               /\ users'[u].totalTaps % CooldownTapInterval = 0
               /\ users'[u].cooldownEndTime = resp'.now + cooldownSeconds
       /\ SuccessfulBoostOf(u) => users'[u].cooldownEndTime = Null]_vars

\* the 500th tap has just set the cooldown
C3_Witness ==
  /\ resp.op = "tap" /\ resp.status = 200
  /\ resp.user.totalTaps = CooldownTapInterval
  /\ resp.user.cooldownEndTime = resp.now + cooldownSeconds
  /\ users[resp.id].cooldownEndTime = resp.now + cooldownSeconds

\* C4: in every accepted tap, gpuLevel and computePower each grow by exactly
\* 1 if the post-increment xp is >= (gpuLevel + 1) * 25000 (never by more),
\* and both are unchanged otherwise.
C4_GpuLevelUp ==
  [][\A u \in UserIds :
       AcceptedTapOf(u) =>
         IF users'[u].xp >= (users[u].gpuLevel + 1) * GpuXpStep
         THEN /\ users'[u].gpuLevel = users[u].gpuLevel + 1
              /\ users'[u].computePower = users[u].computePower + 1
         ELSE /\ users'[u].gpuLevel = users[u].gpuLevel
              /\ users'[u].computePower = users[u].computePower]_vars

\* a tap took xp to 75000, three thresholds at once, and made one level
C4_Witness ==
  /\ resp.op = "tap" /\ resp.status = 200 /\ ops = 1
  /\ resp.user.xp = 3 * GpuXpStep
  /\ resp.user.gpuLevel = 1 /\ resp.user.computePower = 2

\* C5: a boost of a user with boostCount >= 1 leaves cooldownEndTime null
\* whatever it was, and a tap made right after the boost is not rejected for
\* cooldown.
C5_BoostClearsCooldown ==
  [][\A u \in UserIds :
       /\ (BoostOf(u) /\ users[u].boostCount >= 1 /\ resp'.fault # "save")
            => /\ resp'.status = 200
               /\ users'[u].cooldownEndTime = Null
       /\ (resp.op = "boost" /\ resp.id = u /\ resp.saved /\ TapOf(u))
            => resp'.message # "Cooling down"]_vars

\* a boost made at the instant the 500th tap started a cooldown
C5_Witness ==
  /\ resp.op = "boost" /\ resp.status = 200 /\ resp.id = 1
  /\ history.accepted = 1 /\ history.boosts = 1
  /\ users[1].totalTaps = CooldownTapInterval + totalBoostTaps
  /\ users[1].lastTapTime = resp.now
  /\ users[1].cooldownEndTime = Null

\* C6: a boost of a user whose boostCount is 0 is answered "No boost
\* available" and changes nothing.
C6_BoostExhausted ==
  [][\A u \in UserIds :
       (BoostOf(u) /\ users[u].boostCount = 0)
         => /\ resp'.status = 400
            /\ resp'.message = "No boost available"
            /\ StoreUnchanged]_vars

\* a boost refused after the user's only boost was spent
C6_Witness ==
  /\ resp.op = "boost" /\ resp.id = 1 /\ resp.message = "No boost available"
  /\ history.boosts = 1
  /\ users[1].boostCount = 0

\* C7: a successful boost takes 1 from boostCount, adds 100 to totalTaps and
\* 100 * computePower to xp and to compute, and leaves gpuLevel and
\* computePower unchanged, whatever thresholds the new values meet.
C7_BoostEffect ==
  [][\A u \in UserIds :
       SuccessfulBoostOf(u) =>
         /\ users'[u].boostCount = users[u].boostCount - 1
         /\ users'[u].totalTaps = users[u].totalTaps + 100
         /\ users'[u].xp = users[u].xp + 100 * users[u].computePower
         /\ users'[u].compute = users[u].compute + 100 * users[u].computePower
         /\ users'[u].gpuLevel = users[u].gpuLevel
         /\ users'[u].computePower = users[u].computePower]_vars

\* a first boost whose results meet all three of the tap's thresholds
C7_Witness ==
  /\ resp.op = "boost" /\ resp.status = 200 /\ ops = 1
  /\ users[1].xp >= (users[1].gpuLevel + 1) * GpuXpStep
  /\ users[1].xp % BoostXpStep = 0
  /\ users[1].totalTaps % CooldownTapInterval = 0
  /\ users[1].gpuLevel = 0 /\ users[1].boostCount = 0

\* the tier-th ancestor of u along referredBy (NoUser when the chain ends)
RECURSIVE Ancestor(_, _, _)
Ancestor(us, u, tier) ==
  IF u = NoUser THEN NoUser
  ELSE IF tier = 0 THEN u
  ELSE Ancestor(us, us[u].referredBy, tier - 1)

\* C8: a tap that gains xpGained and meets no persistence failure raises the
\* stored xp of the tapping user's tier-1, tier-2 and tier-3 ancestors by
\* floor(xpGained * 0.10), floor(xpGained * 0.05) and floor(xpGained * 0.025),
\* and leaves a 4th-tier ancestor's xp unchanged.
C8_ReferralFanOut ==
  [][\A u \in UserIds :
       (TapOf(u) /\ resp'.status = 200 /\ resp'.fault = "none") =>
         /\ \A tier \in 1 .. 3 :
              LET a == Ancestor(users, u, tier) IN
              a # NoUser =>
                users'[a].xp = users[a].xp
                                 + (users[u].computePower * tierPercentages[tier]) \div 1000
         /\ LET a == Ancestor(users, u, 4) IN
            a # NoUser => users'[a].xp = users[a].xp]_vars

\* C9: when referral distribution raises an error during a tap, the rest of
\* the walk is dropped (no other user changes), the tapping user's stored xp,
\* compute and totalTaps keep the tap's increments, and the tap goes on to
\* its three leaderboard upserts and, when these succeed, to its success
\* response.
C9_ReferralErrorContained ==
  [][\A u \in UserIds :
       (TapOf(u) /\ resp'.refError) =>
         /\ users'[u].xp = users[u].xp + users[u].computePower
         /\ users'[u].compute = users[u].compute + users[u].computePower
         /\ users'[u].totalTaps = users[u].totalTaps + 1
         /\ \A v \in UserIds \ {u} : users'[v] = users[v]
         /\ \A w \in {"daily", "weekly", "all-time"} \ {resp'.fault} :
              \E e \in leaderboard' :
                /\ e.type = w /\ e.user = u
                /\ e.score = IF w = "all-time" THEN users'[u].computePower
                             ELSE users'[u].compute
         /\ resp'.fault \notin {"daily", "weekly", "all-time"} =>
              /\ resp'.status = 200
              /\ resp'.user.xp = users'[u].xp
              /\ resp'.user.totalTaps = users'[u].totalTaps]_vars

\* a tap that gained 1000 xp, lost its referral walk to an error and still
\* succeeded
C9_Witness ==
  /\ resp.op = "tap" /\ resp.refError /\ resp.fault = "none"
  /\ resp.status = 200 /\ ops = 1
  /\ users[1].referredBy = 2
  /\ resp.user.xp = users[1].xp
  /\ users[1].computePower = 1000
  /\ \E e \in leaderboard : e.type = "daily" /\ e.user = 1

\* C10: whenever a tap has saved the user's state it answers with the
\* updated user snapshot, whatever fan-out step failed.
C10_FanOutContained ==
  (resp.op = "tap" /\ resp.saved) =>
    /\ resp.status = 200
    /\ resp.user = TapSnapshot(users[resp.id])

\* the request just handled is a quest claim of a registered user
ClaimOf(u) == resp'.op = "claim" /\ resp'.id = u

\* how often quest q is recorded as completed by user u
Completions(u, q) ==
  Cardinality({i \in DOMAIN users[u].completedQuests : users[u].completedQuests[i] = q})

\* C11: a quest is claimed at most once: a claim of a quest already in
\* completedQuests is answered "Quest already claimed" and changes nothing,
\* a successful claim adds quest.xpReward to xp once and appends the quest
\* id, and no quest id is ever twice in completedQuests.
C11_QuestIdempotent ==
  /\ [](\A u \in UserIds, q \in QuestIds : Completions(u, q) <= 1)
  /\ [][\A u \in UserIds :
          ClaimOf(u) =>
            /\ Completions(u, resp'.quest) >= 1 =>
                 /\ resp'.status = 400
                 /\ resp'.message = "Quest already claimed"
                 /\ StoreUnchanged
            /\ resp'.status = 200 =>
                 /\ users'[u].xp = users[u].xp + Quests[resp'.quest].xpReward
                 /\ users'[u].completedQuests =
                      Append(users[u].completedQuests, resp'.quest)]_vars

\* the daily quest claimed and then claimed again
C11_Witness ==
  /\ resp.op = "claim" /\ resp.id = 1 /\ resp.quest = 1 /\ ops = 2
  /\ resp.message = "Quest already claimed"
  /\ users[1].completedQuests = <<1>>
  /\ users[1].xp \in {x + 50 : x \in InitAllXp}

\* C12: a claim credits quest.xpReward and records the completion only when
\* the verifier returned true for that user and quest: a tap quest needs
\* totalTaps >= requirement, a level quest level >= requirement.
C12_ClaimNeedsVerification ==
  [][\A u \in UserIds :
       (/\ ClaimOf(u)
        /\ \/ users'[u].xp # users[u].xp
           \/ users'[u].completedQuests # users[u].completedQuests)
         => LET quest == Quests[resp'.quest] IN
            /\ quest.type = "tap" => users[u].totalTaps >= quest.requirement
            /\ quest.type = "level" => users[u].level >= quest.requirement
            /\ \E tg \in AnswersFor(resp'.quest) :
                 LET verified == verifyQuestCompletion(users[u], quest, tg) IN
                 ~verified.threw /\ verified.value]_vars

\* C18: cooldownEndTime gets a non-null value only in an accepted tap whose
\* post-increment totalTaps is a multiple of 500 and is cleared only by a
\* boost; a quest claim, a daily claim, a GPU upgrade and a tap that does not
\* land on a multiple of 500 leave it unchanged.
C18_CooldownFrame ==
  [][\A u \in UserIds :
       /\ (/\ users'[u].cooldownEndTime # users[u].cooldownEndTime
           /\ users'[u].cooldownEndTime # Null)
            => /\ AcceptedTapOf(u)
               /\ users'[u].totalTaps % CooldownTapInterval = 0
       /\ (/\ users'[u].cooldownEndTime # users[u].cooldownEndTime
           /\ users'[u].cooldownEndTime = Null)
            => SuccessfulBoostOf(u)
       /\ resp'.op \in {"claim", "daily", "upgrade"}
            => users'[u].cooldownEndTime = users[u].cooldownEndTime
       /\ (TapOf(u) /\ users'[u].totalTaps % CooldownTapInterval # 0)
            => users'[u].cooldownEndTime = users[u].cooldownEndTime]_vars

\* a quest claim, a daily claim and a GPU upgrade made during a cooldown
C18_Witness ==
  /\ ops = 3
  /\ users[1].cooldownEndTime = StartClock + 5
  /\ users[1].completedQuests # <<>>
  /\ users[1].checkInStreak = 1
  /\ users[1].computePower = 2 /\ users[1].gpuLevel = 0

\* C19: a quest claim that does not succeed leaves the user's xp and
\* completedQuests unchanged.
C19_FailedClaimFrame ==
  [][\A u \in UserIds :
       (ClaimOf(u) /\ resp'.status # 200)
         => /\ users'[u].xp = users[u].xp
            /\ users'[u].completedQuests = users[u].completedQuests]_vars

\* a claim of the quest of the unknown type "bonus" has just failed
C19_Witness ==
  /\ resp.op = "claim" /\ resp.id = 1 /\ resp.quest = 6 /\ ops = 1
  /\ Quests[6].type = "bonus"
  /\ resp.status = 500 /\ resp.message = "Error claiming quest"
  /\ users[1].completedQuests = <<>>
  /\ users[1].xp \in InitAllXp

\* the daily leaderboard entries of user u
DailyEntries(u) == {e \in leaderboard : e.type = "daily" /\ e.user = u}

SameKey(e1, e2) == e1.type = e2.type /\ e1.date = e2.date /\ e1.user = e2.user

\* two accepted taps of user 1, and nothing else, made on the first day
TwoTapsSameDay ==
  /\ ops = 2 /\ history.accepted = 2 /\ history.boosts = 0
  /\ clock < 3 * DaySeconds
  /\ resp.op = "tap" /\ resp.status = 200

\* C14 as stated: two accepted taps of a user in one day leave one daily
\* entry whose score is the sum of what the two taps added to compute.
C14_Original ==
  TwoTapsSameDay =>
    /\ Cardinality(DailyEntries(1)) = 1
    /\ \A e \in DailyEntries(1) :
         e.score = users[1].compute - history.initialCompute

\* C14 amended: no two leaderboard entries share (window, period start,
\* user); an accepted tap leaves the daily entry of (start of its day, user)
\* with the user's cumulative compute as score; so two accepted taps in one
\* day leave one daily entry, whose score is the compute held before the
\* first of them plus what the two taps added.
C14_DailyUpsert ==
  /\ \A e1, e2 \in leaderboard : SameKey(e1, e2) => e1 = e2
  /\ (resp.op = "tap" /\ resp.saved /\ resp.fault # "daily") =>
       \E e \in DailyEntries(resp.id) :
         /\ e.date = resp.now - (resp.now % (24 * 60 * 60))
         /\ e.score = users[resp.id].compute
  /\ TwoTapsSameDay =>
       /\ Cardinality(DailyEntries(1)) = 1
       /\ \A e \in DailyEntries(1) : e.score = users[1].compute

\* two taps at different instants of one day by a user who had compute before
C14_Witness ==
  /\ TwoTapsSameDay
  /\ clock = StartClock + 10
  /\ users[1].lastTapTime = clock
  /\ history.initialCompute > 0
  /\ users[1].compute > history.initialCompute + 1
  /\ Cardinality(DailyEntries(1)) = 1

\* C15: an accepted tap adds 1 to boostCount if its post-tap xp is an exact
\* multiple of 2000 and leaves boostCount unchanged otherwise, also when the
\* xp passed over a multiple of 2000.
C15_BoostCountOnExactMultiple ==
  [][\A u \in UserIds :
       AcceptedTapOf(u) =>
         IF users'[u].xp % 2000 = 0
         THEN users'[u].boostCount = users[u].boostCount + 1
         ELSE users'[u].boostCount = users[u].boostCount]_vars

\* a first tap of 1000 xp took xp from 1900 to 2900 and earned no boost
C15_Witness ==
  /\ resp.op = "tap" /\ resp.status = 200 /\ ops = 1
  /\ resp.user.xp = 2900
  /\ users[1].computePower = 1000
  /\ resp.user.boostCount \in InitBoosts
  /\ users[1].boostCount = resp.user.boostCount

\* C16: every tier that distributeReferralXP credits has the counter of its
\* Referral edge raised by the reward: a tap that gains xpGained and meets no
\* persistence failure raises totalRewardsDistributed of the edge (direct
\* referrer, tapping user) by floor(xpGained * 0.10).
C16_ReferralCounter ==
  [][\A u \in UserIds :
       (/\ TapOf(u) /\ resp'.status = 200 /\ resp'.fault = "none"
        /\ users[u].referredBy # NoUser)
         => referrals'[<<users[u].referredBy, u>>]
              = referrals[<<users[u].referredBy, u>>]
                  + (users[u].computePower * 100) \div 1000]_vars

\* the entries an accepted tap of u at time now is to leave, one per window
\* that did not fail
TapEntries(u, now, fault) ==
  LET day == now - (now % (24 * 60 * 60))
      weekday == (4 + day \div (24 * 60 * 60)) % 7
  IN  {e \in {[type |-> "daily", date |-> day, user |-> u,
               score |-> users'[u].compute],
              [type |-> "weekly", date |-> day - weekday * 24 * 60 * 60, user |-> u,
               score |-> users'[u].compute],
              [type |-> "all-time", date |-> 946684800, user |-> u,
               score |-> users'[u].computePower]} : e.type # fault}

\* C20: an accepted tap upserts one entry per leaderboard window and nothing
\* else: daily at the start of the day and weekly at the start of the week
\* (Sunday) with the post-tap compute, all-time at the fixed date with the
\* post-tap computePower.
C20_LeaderboardWindows ==
  [][\A u \in UserIds :
       AcceptedTapOf(u) =>
         LET written == TapEntries(u, resp'.now, resp'.fault) IN
         /\ written \subseteq leaderboard'
         /\ \A e \in leaderboard' :
              (\E w \in written : SameKey(e, w)) => e \in written
         /\ \A e \in leaderboard' \ written : e \in leaderboard
         /\ \A e \in leaderboard :
              (\A w \in written : ~SameKey(e, w)) => e \in leaderboard']_vars

\* a tap on the first second of a Sunday that raised the GPU level: the
\* weekly entry starts that day and the all-time entry carries the new power
C20_Witness ==
  /\ resp.op = "tap" /\ resp.status = 200
  /\ resp.now = 3 * DaySeconds
  /\ resp.user.gpuLevel = 1 /\ resp.user.computePower = 2
  /\ [type |-> "weekly", date |-> 3 * DaySeconds, user |-> 1,
      score |-> resp.user.compute] \in leaderboard
  /\ [type |-> "all-time", date |-> allTimeDate, user |-> 1, score |-> 2] \in leaderboard
  /\ \E e \in leaderboard : e.type = "weekly" /\ e.date < 0

\* C13: a user's stored xp never decreases, whatever requests run and
\* however they interleave between their read and their save: every step
\* leaves each stored xp >= the value stored before it.
C13_XpNeverDecreases ==
  [][\A u \in UserIds : users'[u].xp >= users[u].xp]_vars

\* the slots whose tap has had its user.save() completed
SavedTaps == {s \in Slots : reqs[s].op = "tap" /\ reqs[s].step > 1}

\* C17: the referral propagation and the leaderboard upserts of a tap begin
\* only once its user.save() has written the tapping user's updated state;
\* a tap answered "User not found" or "Cooling down" starts neither and
\* writes nothing.
C17_FanOutAfterSave ==
  [][/\ \A s \in Slots :
          (reqs'[s].phase \in {"referral", "leaderboard"} /\ reqs'[s] # reqs[s]) =>
            /\ reqs[s].op = "tap"
            /\ reqs[s].phase = "save" \/ s \in SavedTaps
            /\ reqs[s].phase = "save" =>
                 /\ users'[reqs[s].uid].xp = reqs[s].doc.xp
                 /\ users'[reqs[s].uid].totalTaps = reqs[s].doc.totalTaps
                 /\ leaderboard' = leaderboard /\ referrals' = referrals
     /\ (leaderboard' # leaderboard \/ referrals' # referrals) =>
          \E s \in SavedTaps : reqs'[s] # reqs[s]
     /\ (resp' # resp /\ resp'.op = "tap" /\ resp'.status \in {400, 404}) =>
          /\ StoreUnchanged
          /\ reqs' = reqs]_vars

\* a tap has answered after its save and its fan-out while another tap,
\* begun later, is still waiting for its save
C17_Witness ==
  /\ resp.op = "tap" /\ resp.status = 200
  /\ \E e \in leaderboard : e.type = "daily" /\ e.user = 1 /\ e.score = resp.user.compute
  /\ \E s \in Slots : reqs[s].op = "tap" /\ reqs[s].phase = "save" /\ reqs[s].now > resp.now

\* C21: two taps of one user that both read the user before either saves
\* are both accepted and both answer "Tap successful", and the store keeps
\* only one of them: each save writes totalTaps, xp and compute as computed
\* from the document that tap loaded, over whatever the store holds, so after
\* the second of two such saves totalTaps is the initial value + 1.
C21_LastWriterWins ==
  [][\A s \in Slots :
       /\ (reqs[s].op = "tap" /\ reqs[s].phase = "save" /\ reqs'[s] # reqs[s]) =>
            LET r == reqs[s] IN
            /\ users'[r.uid].totalTaps = r.loaded.totalTaps + 1
            /\ users'[r.uid].xp = r.loaded.xp + r.loaded.computePower
            /\ users'[r.uid].compute = r.loaded.compute + r.loaded.computePower
            /\ (/\ ops = 2 /\ history.accepted = 1 /\ history.boosts = 0
                /\ r.loaded.totalTaps = history.initialTaps) =>
                 /\ history'.accepted = 2
                 /\ users'[r.uid].totalTaps = history.initialTaps + 1
                 /\ users'[r.uid].totalTaps = users[r.uid].totalTaps
       /\ (reqs[s].op = "tap" /\ reqs'[s] = Idle) =>
            /\ resp'.op = "tap" /\ resp'.status = 200
            /\ resp'.message = "Tap successful"
            /\ resp'.user.totalTaps = reqs[s].loaded.totalTaps + 1]_vars

\* two taps, and no other request, were both accepted and have both
\* answered with success, and totalTaps is the initial value + 1
C21_Witness ==
  /\ ops = 2 /\ history.accepted = 2 /\ history.boosts = 0
  /\ \A s \in Slots : reqs[s] = Idle
  /\ resp.op = "tap" /\ resp.status = 200
  /\ users[1].totalTaps = history.initialTaps + 1
  /\ users[1].xp = history.initialCompute + 1

\* C23: boostCount is never negative, whatever taps and boosts run on a
\* user and however they interleave; two boosts that both read
\* boostCount = 1 before either saves both store 0.
C23_BoostCountNonNegative ==
  \A u \in UserIds : users[u].boostCount >= 0

\* two boosts, and no other request, both succeeded on a user who had one
\* boost: each read boostCount = 1 before the other saved
C23_Witness ==
  /\ ops = 2 /\ history.boosts = 2 /\ history.accepted = 0
  /\ \A s \in Slots : reqs[s] = Idle
  /\ resp.op = "boost" /\ resp.status = 200 /\ resp.user.boostCount = 0
  /\ users[1].boostCount = 0

\* C22: on every graph of referredBy links, a self-referral and a cycle
\* included, a call of distributeReferralXP returns after crediting at most
\* 3 ancestors; it never works on an absent ancestor, and for a user without
\* a stored referrer it returns at once with no credit and no error.
C22_WalkTerminates ==
  /\ [](reqs.op = "referral" =>
          /\ reqs.credited <= 3 /\ reqs.saved <= reqs.credited
          /\ reqs.tier <= 3 + 1
          /\ reqs.phase = "loop" => reqs.cur \in UserIds
          /\ (reqs.phase = "done" /\ ~reqs.error) =>
               (reqs.cur = NoUser \/ reqs.tier > 3)
          /\ (reqs.id \notin UserIds \/ users[reqs.id].referredBy \notin UserIds) =>
               (reqs.phase = "done" /\ reqs.credited = 0 /\ ~reqs.error))
  /\ (reqs.phase = "loop" ~> reqs.phase = "done")

\* a call for a user who is its own referrer, in a graph where every user
\* has a referrer, has returned
C22_Witness ==
  /\ reqs.op = "referral" /\ reqs.phase = "done"
  /\ reqs.id \in UserIds
  /\ users[reqs.id].referredBy = reqs.id
  /\ \A u \in UserIds : users[u].referredBy \in UserIds
  /\ reqs.credited = 1

====
